---- MODULE Spec2Model ----
(***************************************************************************)
(* PARTH (src/src/App.tsx): the task / focus-timer state machine, the      *)
(* adaptive focus-duration calculator, the missed-deadline rule and the    *)
(* cross-tab snapshot replication, as a state machine.                     *)
(*                                                                         *)
(* One browser tab holds one State value.  Every handler of the component  *)
(* is one action, parametrised by the tab it runs in.  The persist /       *)
(* broadcast effect of the component (it runs after every render in which  *)
(* the state object changed) is part of every action that changes the      *)
(* state object.                                                           *)
(*                                                                         *)
(* Not modelled: names, categories, the per-task mode, wall-clock          *)
(* timestamp strings (createdAt, completedAt, startedAt, endedAt), the     *)
(* audio and purely visual settings, onboardingDone.  No handler reads     *)
(* them to decide anything.                                                *)
(***************************************************************************)
EXTENDS Integers, Sequences, FiniteSets, TLC

VARIABLES
    open,     \* the set of tabs whose App component is mounted
    st,       \* st[t]: the React state value of tab t (the State interface)
    inbox,    \* inbox[t]: 'message' events queued for tab t's syncHandler
    storage,  \* localStorage[STORAGE_KEY]: <<>> when absent, else <<value>>
    now,      \* the wall clock (Date.now()), in abstract time units
    nextId,   \* the next id uid() hands out
    last,     \* history: the handler that ran last, and the tab it ran in
    edits,    \* history: handler runs counted against MaxEdits
    ticked    \* history: ticked[t] is <<timer.remaining>> of tab t as its
              \* last tick left it, <<>> before its first tick (SpecClock)

vars == <<open, st, inbox, storage, now, nextId, last, edits, ticked>>

----------------------------------------------------------------------------
(* Bounds of the exploration.                                              *)

\* tasks created in one behaviour
MaxTasks == 2
\* longest task list the display ordering is drawn on
MaxShown == 3
\* the clock runs from 1 to MaxNow
MaxNow == 2
\* completed focus phases in one behaviour
MaxStreak == 1
\* undelivered snapshots, all tabs together
MaxInbox == 2
\* handler runs in one behaviour of the replicating tabs, ticks aside
MaxEdits == 4
\* countdowns of at most this many seconds are ticked down
MaxCountdown == 60
\* while a countdown is under way, handlers other than the tick are explored
\* only in its last TickHorizon seconds (and before its first tick)
TickHorizon == 1
\* length of the session histories drawn for the calculator
MaxHistory == 7

Tabs == {1, 2}

----------------------------------------------------------------------------
(* Types of the source.                                                    *)

Modes == {"student", "worker", "custom"}
TaskStates == {"Idle", "Queued", "Running", "Suspended", "Completed"}
RuleTemplates ==
    {"missed_deadline_requeue", "early_break_reduce_next", "streak_extend_session"}

\* activeTaskId: undefined
NoTask == 0
\* deadline: undefined
NoDeadline == 0

SecondsPerMinute == 60

Min2(a, b) == IF a < b THEN a ELSE b
Max2(a, b) == IF a > b THEN a ELSE b

clamp(value, min, max) == Min2(max, Max2(min, value))

Includes(seq, x) == \E i \in 1..Len(seq) : seq[i] = x

defaultSettings ==
    [ mode |-> "student",
      pomodoro |-> [ student |-> [focus |-> 25, break |-> 5],
                     worker  |-> [focus |-> 50, break |-> 10],
                     custom  |-> [focus |-> 35, break |-> 8] ],
      adaptivePomodoro |-> TRUE ]

initialState ==
    [ tasks |-> <<>>,
      sessions |-> <<>>,
      settings |-> defaultSettings,
      timer |-> [phase |-> "focus", running |-> FALSE,
                 remaining |-> 25 * 60, total |-> 25 * 60],
      activeTaskId |-> NoTask,
      streak |-> 0,
      rules |-> <<"missed_deadline_requeue", "early_break_reduce_next",
                  "streak_extend_session">>,
      keyOrder |-> "declared" ]

\* Own-key order of a State object, as far as it varies.  The literal
\* initialState declares activeTaskId between timer and streak ("declared").
\* JSON.stringify omits the key while its value is undefined, so an object
\* parsed from such a string has no such key ("missing"); a later spread
\* { ...prev, activeTaskId: ... } then creates it after every other key
\* ("appended").  A spread over an object that has the key keeps its place.
KeyOrders == {"declared", "appended", "missing"}

\* { ...prev, activeTaskId: value }
AssignKey(order) == IF order = "missing" THEN "appended" ELSE order

----------------------------------------------------------------------------
(* Sequence helpers: Array.prototype.slice / reduce.  Array.prototype.map  *)
(* is a function over the indices, filter is SelectSeq.                    *)

\* seq.slice(-n)
SliceLast(seq, n) ==
    IF Len(seq) <= n THEN seq ELSE SubSeq(seq, Len(seq) - n + 1, Len(seq))

\* tasks.reduce((acc, task) => acc + task.estimatedFocusCost, 0)
RECURSIVE SumCost(_)
SumCost(tasks) ==
    IF tasks = <<>> THEN 0
    ELSE Head(tasks).estimatedFocusCost + SumCost(Tail(tasks))

----------------------------------------------------------------------------
(* JSON.stringify / JSON.parse of a State: a key whose value is undefined  *)
(* is not written, and reads back as undefined.  The keys are written in   *)
(* the order the object holds them, and are parsed in the order written.   *)

Drop(rec, key) == [k \in DOMAIN rec \ {key} |-> rec[k]]

StringifyTask(task) ==
    IF task.deadline = NoDeadline THEN Drop(task, "deadline") ELSE task

ParseTask(raw) ==
    IF "deadline" \in DOMAIN raw THEN raw
    ELSE [k \in DOMAIN raw \cup {"deadline"} |->
             IF k = "deadline" THEN NoDeadline ELSE raw[k]]

Stringify(s) ==
    LET withTasks == [s EXCEPT !.tasks = [i \in 1..Len(s.tasks) |-> StringifyTask(s.tasks[i])]]
    IN  IF s.activeTaskId = NoTask
        THEN Drop(Drop(withTasks, "activeTaskId"), "keyOrder")
        ELSE withTasks

Parse(raw) ==
    LET withKey ==
            IF "activeTaskId" \in DOMAIN raw THEN raw
            ELSE [k \in DOMAIN raw \cup {"activeTaskId", "keyOrder"} |->
                     IF k = "activeTaskId" THEN NoTask
                     ELSE IF k = "keyOrder" THEN "missing"
                     ELSE raw[k]]
    IN  [withKey EXCEPT !.tasks = [i \in 1..Len(withKey.tasks) |-> ParseTask(withKey.tasks[i])]]

\* { ...defaultSettings, ...candidate.settings,
\*   pomodoro: { ...defaultSettings.pomodoro, ...candidate.settings.pomodoro } }
Spread(base, over) ==
    [k \in DOMAIN base \cup DOMAIN over |->
        IF k \in DOMAIN over THEN over[k] ELSE base[k]]

\* mutant: the stored pomodoro object replaces the default one unmerged
normalizeStateShallow(candidate) ==
    LET given == IF "settings" \in DOMAIN candidate
                 THEN candidate.settings ELSE <<>>
    IN  Spread(candidate, [settings |-> Spread(defaultSettings, given)])

normalizeState(candidate) ==
    LET given == IF "settings" \in DOMAIN candidate
                 THEN candidate.settings ELSE <<>>
        pomo  == IF "pomodoro" \in DOMAIN given THEN given.pomodoro ELSE <<>>
        merged == Spread(defaultSettings, given)
    IN  Spread(candidate,
               [settings |->
                   [merged EXCEPT !.pomodoro =
                       Spread(defaultSettings.pomodoro, pomo)]])

\* A stored item is the JSON text of a State (modelled by the record it
\* spells) or some other text: [text |-> ...].  Of the other texts, "" is
\* falsy, "null" parses to null, and the rest is not JSON.
IsText(raw) == "text" \in DOMAIN raw

\* !raw: getItem returned null, or the empty string
Falsy(item) == item = <<>> \/ (IsText(item[1]) /\ item[1].text = "")

\* JSON.parse(raw) throws a SyntaxError, or it returns null and
\* normalizeState throws a TypeError on candidate.settings
LoadThrows(raw) == IsText(raw)

\* mutant: the fallback of the loader keeps no rule enabled
LoadStateWithoutRules(item) ==
    IF Falsy(item) THEN [initialState EXCEPT !.rules = <<>>]
    ELSE IF LoadThrows(item[1]) THEN [initialState EXCEPT !.rules = <<>>]
    ELSE normalizeState(Parse(item[1]))

\* the useState initialiser of App
LoadState(item) ==
    IF Falsy(item) THEN initialState
    ELSE IF LoadThrows(item[1]) THEN initialState
    ELSE normalizeState(Parse(item[1]))

----------------------------------------------------------------------------
(* The adaptive focus-duration calculator.                                 *)

IsCompleted(session) == session.completed

\* completionRate is 1 without sessions, else the quotient c / n of the c
\* completed among the n most recent sessions (n <= 6).  The comparisons with
\* 0.5 and 0.8 are exact: the doubles c / n, 0.5 and 0.8 compare as the
\* rationals c / n, 1/2 and 4/5 do.
CompletionRateBelowHalf(c, n) == n # 0 /\ 2 * c < n

\* mutant: a rate of exactly 0.8 extends the session
CompletionRateAtLeastFourFifths(c, n) == n = 0 \/ 5 * c >= 4 * n

CompletionRateAboveFourFifths(c, n) == n = 0 \/ 5 * c > 4 * n

\* averageTaskCost >= 4, the average being 3 without tasks
AverageCostAtLeastFour(tasks) ==
    Len(tasks) # 0 /\ SumCost(tasks) >= 4 * Len(tasks)

\* adaptiveMinutes after the three rules and the hour, clamped
AdaptiveMinutes(s, hour) ==
    LET modeProfile == s.settings.pomodoro[s.settings.mode]
        recentSessions == SliceLast(s.sessions, 6)
        n == Len(recentSessions)
        c == Cardinality({i \in 1..Len(recentSessions) :
                             IsCompleted(recentSessions[i])})
        m0 == modeProfile.focus
        m1 == IF CompletionRateBelowHalf(c, n)
                 /\ Includes(s.rules, "early_break_reduce_next")
              THEN m0 - 5 ELSE m0
        m2 == IF CompletionRateAboveFourFifths(c, n)
                 /\ Includes(s.rules, "streak_extend_session")
              THEN m1 + 5 ELSE m1
        m3 == IF AverageCostAtLeastFour(s.tasks) THEN m2 + 5 ELSE m2
        m4 == IF hour >= 22 \/ hour < 7 THEN m3 - 5 ELSE m3
    IN  clamp(m4, 15, 70)

\* mutant: the adaptive flag is not consulted
getAdaptiveFocusSecondsAlways(s, hour) ==
    AdaptiveMinutes(s, hour) * SecondsPerMinute

getAdaptiveFocusSeconds(s, hour) ==
    IF ~s.settings.adaptivePomodoro
    THEN s.settings.pomodoro[s.settings.mode].focus * SecondsPerMinute
    ELSE AdaptiveMinutes(s, hour) * SecondsPerMinute

----------------------------------------------------------------------------
(* State transition functions: the updaters the handlers pass to setState. *)

\* mutant: the finished task is completed but its focus seconds are not added
FinishTaskWithoutSeconds(task, prev) ==
    IF task.id = prev.activeTaskId
    THEN [task EXCEPT !.state = "Completed"]
    ELSE task

\* mutant: the focus seconds are credited to every task
FinishTaskCreditingAll(task, prev) ==
    IF task.id = prev.activeTaskId
    THEN [task EXCEPT
             !.state = "Completed",
             !.totalFocusSeconds = task.totalFocusSeconds + prev.timer.total]
    ELSE [task EXCEPT
             !.totalFocusSeconds = task.totalFocusSeconds + prev.timer.total]

\* the task mapper of the focus expiry
FinishTask(task, prev) ==
    IF task.id = prev.activeTaskId
    THEN [task EXCEPT
             !.state = "Completed",
             !.totalFocusSeconds = task.totalFocusSeconds + prev.timer.total]
    ELSE task

\* the interval callback of the timer effect
\* mutant: a pause stops the tick only before the countdown has started
TimerIdleBeforeStart(prev) ==
    ~prev.timer.running /\ prev.timer.remaining = prev.timer.total

\* if (!prev.timer.running) return prev
TimerIdle(prev) == ~prev.timer.running

\* mutant: the tick shortens the phase as well
CountDownWithTotal(prev) ==
    [prev EXCEPT !.timer.remaining = prev.timer.remaining - 1,
                 !.timer.total = prev.timer.total - 1]

\* mutant: the tick leaves the countdown where it is
CountDownHeld(prev) ==
    [prev EXCEPT !.timer.remaining = prev.timer.remaining]

\* { ...prev, timer: { ...prev.timer, remaining: prev.timer.remaining - 1 } }
CountDown(prev) ==
    [prev EXCEPT !.timer.remaining = prev.timer.remaining - 1]

\* mutant: the session is recorded as cut short
finishedSessionInterrupted(prev) ==
    [ taskId |-> prev.activeTaskId,
      plannedSeconds |-> prev.timer.total,
      completedSeconds |-> 0,
      completed |-> FALSE,
      interrupted |-> TRUE ]

\* the Session record of the focus expiry
finishedSession(prev) ==
    [ taskId |-> prev.activeTaskId,
      plannedSeconds |-> prev.timer.total,
      completedSeconds |-> prev.timer.total,
      completed |-> TRUE,
      interrupted |-> FALSE ]

TickState(prev) ==
    IF TimerIdle(prev) THEN prev
    ELSE IF prev.timer.remaining > 0
    THEN CountDown(prev)
    ELSE IF prev.timer.phase = "focus"
    THEN LET breakSeconds ==
                 prev.settings.pomodoro[prev.settings.mode].break * SecondsPerMinute
         IN  [prev EXCEPT
                 !.sessions = IF prev.activeTaskId # NoTask
                              THEN Append(prev.sessions, finishedSession(prev))
                              ELSE prev.sessions,
                 !.streak = prev.streak + 1,
                 !.tasks = [i \in 1..Len(prev.tasks) |->
                              FinishTask(prev.tasks[i], prev)],
                 !.activeTaskId = NoTask,
                 !.keyOrder = AssignKey(prev.keyOrder),
                 !.timer = [phase |-> "break", running |-> TRUE,
                            remaining |-> breakSeconds, total |-> breakSeconds]]
    ELSE LET focusSeconds ==
                 prev.settings.pomodoro[prev.settings.mode].focus * SecondsPerMinute
         IN  [prev EXCEPT
                 !.timer = [phase |-> "focus", running |-> FALSE,
                            remaining |-> focusSeconds, total |-> focusSeconds]]

\* mutant: a deadline that is reached, not yet passed, counts as missed
RequeueTaskAtDeadline(task, time) ==
    IF task.deadline # NoDeadline /\ task.deadline <= time
       /\ task.state # "Completed"
    THEN [task EXCEPT !.state = "Queued"]
    ELSE task

\* mutant: a requeued task is also moved up in priority
RequeueTaskEscalating(task, time) ==
    IF task.deadline # NoDeadline /\ task.deadline < time
       /\ task.state # "Completed"
    THEN [task EXCEPT !.state = "Queued",
                      !.priorityWeight = Min2(5, task.priorityWeight + 1)]
    ELSE task

\* the task mapper of applyMissedDeadlineRule, at wall-clock time `time`
RequeueTask(task, time) ==
    IF task.deadline # NoDeadline /\ task.deadline < time
       /\ task.state # "Completed"
    THEN [task EXCEPT !.state = "Queued"]
    ELSE task

\* the updater of applyMissedDeadlineRule
RequeueMissed(prev, time) ==
    [prev EXCEPT
        !.tasks = [i \in 1..Len(prev.tasks) |->
                     RequeueTask(prev.tasks[i], time)]]

NewTask(id, priorityWeight, estimatedFocusCost, deadline) ==
    [ id |-> id,
      priorityWeight |-> priorityWeight,
      estimatedFocusCost |-> estimatedFocusCost,
      state |-> "Queued",
      deadline |-> deadline,
      totalFocusSeconds |-> 0 ]

\* the updater of createQuickTask and createAdvancedTask
AddTask(prev, task) == [prev EXCEPT !.tasks = Append(prev.tasks, task)]

\* mutant: the task that was running is not suspended
SwitchTaskWithoutSuspend(task, prev, taskId) ==
    IF task.id = taskId
    THEN [task EXCEPT !.state = "Running"]
    ELSE task

\* the task mapper of runTask
SwitchTask(task, prev, taskId) ==
    IF task.id = prev.activeTaskId /\ task.state = "Running"
    THEN [task EXCEPT !.state = "Suspended"]
    ELSE IF task.id = taskId
    THEN [task EXCEPT !.state = "Running"]
    ELSE task

\* the updater of runTask; total is computed by the handler before setState
RunTaskState(prev, taskId, total) ==
    [prev EXCEPT
        !.activeTaskId = taskId,
        !.keyOrder = AssignKey(prev.keyOrder),
        !.tasks = [i \in 1..Len(prev.tasks) |->
                     SwitchTask(prev.tasks[i], prev, taskId)],
        !.timer = [phase |-> "focus", running |-> TRUE,
                   remaining |-> total, total |-> total]]

\* mutant: the status follows the old value of timer.running, not the new one
FlipTaskInverted(task, prev) ==
    IF task.id = prev.activeTaskId
    THEN [task EXCEPT !.state = IF prev.timer.running
                                THEN "Running" ELSE "Suspended"]
    ELSE task

\* the task mapper of pauseOrResume
FlipTask(task, prev) ==
    IF task.id = prev.activeTaskId
    THEN [task EXCEPT !.state = IF prev.timer.running
                                THEN "Suspended" ELSE "Running"]
    ELSE task

\* the updater of pauseOrResume
PauseOrResumeState(prev) ==
    [prev EXCEPT
        !.timer.running = ~prev.timer.running,
        !.tasks = [i \in 1..Len(prev.tasks) |->
                     FlipTask(prev.tasks[i], prev)]]

\* the rule buttons' updater
ToggleRuleState(prev, rule) ==
    LET NotRule(entry) == entry # rule
    IN  [prev EXCEPT !.rules = IF Includes(prev.rules, rule)
                               THEN SelectSeq(prev.rules, NotRule)
                               ELSE Append(prev.rules, rule)]

----------------------------------------------------------------------------
(* Display ordering.  Array.prototype.sort on a short array is a binary    *)
(* insertion sort; with a comparator that is a consistent ordering the     *)
(* result is the stable sort, whatever the algorithm.                      *)

\* mutant: the comparator without its two Queued lines
CompareTasksIgnoringQueued(a, b) ==
    IF a.state = "Running" THEN -1
    ELSE IF b.state = "Running" THEN 1
    ELSE b.priorityWeight - a.priorityWeight

\* the comparator of sortedTasks: negative when a goes first
CompareTasks(a, b) ==
    IF a.state = "Running" THEN -1
    ELSE IF b.state = "Running" THEN 1
    ELSE IF a.state = "Queued" /\ b.state # "Queued" THEN -1
    ELSE IF b.state = "Queued" /\ a.state # "Queued" THEN 1
    ELSE b.priorityWeight - a.priorityWeight

RECURSIVE InsertionPoint(_, _, _, _)
InsertionPoint(sorted, pivot, left, right) ==
    IF left >= right THEN left
    ELSE LET mid == left + ((right - left) \div 2)
         IN  IF CompareTasks(pivot, sorted[mid + 1]) < 0
             THEN InsertionPoint(sorted, pivot, left, mid)
             ELSE InsertionPoint(sorted, pivot, mid + 1, right)

InsertAt(seq, k, x) ==
    SubSeq(seq, 1, k) \o <<x>> \o SubSeq(seq, k + 1, Len(seq))

RECURSIVE SortFrom(_, _)
SortFrom(sorted, rest) ==
    IF rest = <<>> THEN sorted
    ELSE SortFrom(InsertAt(sorted,
                           InsertionPoint(sorted, Head(rest), 0, Len(sorted)),
                           Head(rest)),
                  Tail(rest))

sortedTasks(s) == SortFrom(<<>>, s.tasks)

\* state.tasks.find((task) => task.id === state.activeTaskId)
HasActiveTask(s) ==
    \E i \in 1..Len(s.tasks) : s.tasks[i].id = s.activeTaskId

TaskById(s, id) ==
    s.tasks[CHOOSE i \in 1..Len(s.tasks) : s.tasks[i].id = id]

TaskIds(s) == {s.tasks[i].id : i \in 1..Len(s.tasks)}

----------------------------------------------------------------------------
(* The handlers as actions of tab t.                                       *)

\* Bound of the exploration: between the first tick of a countdown and its
\* last TickHorizon seconds only ticks (and incoming snapshots) are explored.
\* No handler but the tick reads timer.remaining.
MidCountdown(t) ==
    /\ st[t].timer.running
    /\ st[t].timer.remaining > TickHorizon
    /\ st[t].timer.remaining < st[t].timer.total

Ran(op, t) == [op |-> op, tab |-> t]

\* snapshots posted and not yet dispatched
InFlight == Len(inbox[1]) + Len(inbox[2])

\* setState with a new state object, then the persist / broadcast effect:
\* localStorage.setItem and syncChannel.postMessage to every other open tab
Commit(t, next, op) ==
    /\ open # {t} => InFlight < MaxInbox
    /\ st' = [st EXCEPT ![t] = next]
    /\ storage' = <<Stringify(next)>>
    /\ inbox' = [u \in Tabs |->
                    IF u \in open \ {t} THEN Append(inbox[u], next)
                    ELSE inbox[u]]
    /\ last' = Ran(op, t)

\* the handler ran and left the state object as it was: no render, no effect
Skip(t, op) ==
    /\ last' = Ran(op, t)
    /\ UNCHANGED <<st, storage, inbox>>

\* a second tab is opened: useState initialiser, then the effect on mount
OpenTab(t) ==
    /\ t \notin open
    /\ open' = open \cup {t}
    /\ st' = [st EXCEPT ![t] = LoadState(storage)]
    /\ storage' = <<Stringify(LoadState(storage))>>
    /\ inbox' = [u \in Tabs |->
                    IF u \in open THEN Append(inbox[u], LoadState(storage))
                    ELSE inbox[u]]
    /\ InFlight < MaxInbox
    /\ last' = [op |-> "mount", tab |-> t, raw |-> storage]
    /\ UNCHANGED <<now, nextId>>

Tick(t) ==
    /\ t \in open
    /\ st[t].timer.remaining <= MaxCountdown
    /\ TickState(st[t]).streak <= MaxStreak
    /\ IF TickState(st[t]) = st[t] /\ ~st[t].timer.running
       THEN Skip(t, "tick")
       ELSE Commit(t, TickState(st[t]), "tick")
    /\ UNCHANGED <<open, now, nextId>>

applyMissedDeadlineRule(t) ==
    /\ t \in open
    /\ ~MidCountdown(t)
    /\ IF ~Includes(st[t].rules, "missed_deadline_requeue")
       THEN Skip(t, "applyMissedDeadlineRule")
       ELSE Commit(t, RequeueMissed(st[t], now), "applyMissedDeadlineRule")
    /\ UNCHANGED <<open, now, nextId>>

\* A name typed into a text input is a sequence of characters.
\* String.prototype.trim removes the white space at both ends.
RECURSIVE trimStart(_)
trimStart(str) ==
    IF str # <<>> /\ Head(str) = " " THEN trimStart(Tail(str)) ELSE str

RECURSIVE trimEnd(_)
trimEnd(str) ==
    IF str # <<>> /\ str[Len(str)] = " "
    THEN trimEnd(SubSeq(str, 1, Len(str) - 1))
    ELSE str

\* mutant: the name is taken as typed
untrimmed(str) == str

trim(str) == trimEnd(trimStart(str))

\* if (!quickTask.trim()) return: no setState at all
createQuickTask(t, name) ==
    /\ t \in open
    /\ ~MidCountdown(t)
    /\ IF trim(name) = <<>>
       THEN /\ Skip(t, "createQuickTask")
            /\ nextId' = nextId
       ELSE /\ nextId <= MaxTasks
            /\ Commit(t, AddTask(st[t], NewTask(nextId, 3, 3, NoDeadline)),
                      "createQuickTask")
            /\ nextId' = nextId + 1
    /\ UNCHANGED <<open, now>>

\* if (!advancedTask.name.trim()) return: no setState at all
createAdvancedTask(t, name, priorityWeight, estimatedFocusCost, deadline) ==
    /\ t \in open
    /\ ~MidCountdown(t)
    /\ IF trim(name) = <<>>
       THEN /\ Skip(t, "createAdvancedTask")
            /\ nextId' = nextId
       ELSE /\ nextId <= MaxTasks
            /\ Commit(t, AddTask(st[t], NewTask(nextId, priorityWeight,
                                                estimatedFocusCost, deadline)),
                      "createAdvancedTask")
            /\ nextId' = nextId + 1
    /\ UNCHANGED <<open, now>>

runTask(t, taskId, hour) ==
    /\ t \in open
    /\ ~MidCountdown(t)
    /\ Commit(t, RunTaskState(st[t], taskId,
                              getAdaptiveFocusSeconds(st[t], hour)),
              "runTask")
    /\ UNCHANGED <<open, now, nextId>>

\* the Run button of a task row: rendered for tasks that are not Completed
RunButton(t, taskId, hour) ==
    /\ t \in open
    /\ taskId \in TaskIds(st[t])
    /\ TaskById(st[t], taskId).state # "Completed"
    /\ runTask(t, taskId, hour)

\* the hero button without an active task: Start Session
StartSession(t, hour) ==
    /\ t \in open
    /\ ~HasActiveTask(st[t])
    /\ st[t].tasks # <<>>
    /\ runTask(t, sortedTasks(st[t])[1].id, hour)

\* mutant: the hero button is Pause / Resume whether a task is active or not
pauseOrResumeWithoutTask(t) ==
    /\ t \in open
    /\ ~MidCountdown(t)
    /\ Commit(t, PauseOrResumeState(st[t]), "pauseOrResume")
    /\ UNCHANGED <<open, now, nextId>>

\* the hero button with an active task: Pause / Resume
pauseOrResume(t) ==
    /\ t \in open
    /\ ~MidCountdown(t)
    /\ HasActiveTask(st[t])
    /\ Commit(t, PauseOrResumeState(st[t]), "pauseOrResume")
    /\ UNCHANGED <<open, now, nextId>>

ToggleRule(t, rule) ==
    /\ t \in open
    /\ ~MidCountdown(t)
    /\ Commit(t, ToggleRuleState(st[t], rule), "toggleRule")
    /\ UNCHANGED <<open, now, nextId>>

SetMode(t, mode) ==
    /\ t \in open
    /\ ~MidCountdown(t)
    /\ Commit(t, [st[t] EXCEPT !.settings.mode = mode], "setMode")
    /\ UNCHANGED <<open, now, nextId>>

SetFocusMinutes(t, minutes) ==
    /\ t \in open
    /\ ~MidCountdown(t)
    /\ Commit(t, [st[t] EXCEPT
                     !.settings.pomodoro[st[t].settings.mode].focus = minutes],
              "setFocusMinutes")
    /\ UNCHANGED <<open, now, nextId>>

SetBreakMinutes(t, minutes) ==
    /\ t \in open
    /\ ~MidCountdown(t)
    /\ Commit(t, [st[t] EXCEPT
                     !.settings.pomodoro[st[t].settings.mode].break = minutes],
              "setBreakMinutes")
    /\ UNCHANGED <<open, now, nextId>>

ToggleAdaptive(t) ==
    /\ t \in open
    /\ ~MidCountdown(t)
    /\ Commit(t, [st[t] EXCEPT !.settings.adaptivePomodoro =
                                  ~st[t].settings.adaptivePomodoro],
              "toggleAdaptive")
    /\ UNCHANGED <<open, now, nextId>>

\* syncHandler: one queued 'message' event is dispatched to tab t
syncHandler(t) ==
    /\ t \in open
    /\ inbox[t] # <<>>
    /\ LET incoming == normalizeState(Head(inbox[t]))
           replaced == Stringify(st[t]) # Stringify(incoming)
       IN  /\ st' = [st EXCEPT ![t] = IF replaced THEN incoming ELSE st[t]]
           /\ storage' = IF replaced THEN <<Stringify(incoming)>> ELSE storage
           /\ inbox' = [u \in Tabs |->
                  IF u = t THEN Tail(inbox[t])
                  ELSE IF replaced /\ u \in open
                  THEN Append(inbox[u], incoming)
                  ELSE inbox[u]]
           /\ last' = Ran("syncHandler", t)
    /\ UNCHANGED <<open, now, nextId>>

\* wall-clock time passes
AdvanceClock ==
    /\ now < MaxNow
    /\ now' = now + 1
    /\ UNCHANGED <<open, st, inbox, storage, nextId, last>>

----------------------------------------------------------------------------
(* Specifications.                                                         *)

\* inputs the exploration draws from; blank names are drawn in SpecCreate
NameInputs == {<<"a">>}
PriorityInputs == {5}
CostInputs == {5}
DeadlineInputs == {1}
HourInputs == {6, 7}
FocusInputs == {1}
BreakInputs == {0}
ModeInputs == {"worker"}
RuleInputs == {"missed_deadline_requeue"}

Init ==
    /\ open = {1}
    /\ st = [t \in Tabs |-> initialState]
    /\ inbox = [t \in Tabs |-> <<>>]
    /\ storage = <<Stringify(initialState)>>
    /\ now = 1
    /\ nextId = 1
    /\ last = Ran("mount", 1)
    /\ edits = 0
    /\ ticked = [t \in Tabs |-> <<>>]

\* One tab; the mode selector and the rule buttons are explored in SpecTabs,
\* quick tasks (no deadline) in SpecSync and SpecCreate.
Next ==
    \/ Tick(1) /\ UNCHANGED <<edits, ticked>>
    \/ applyMissedDeadlineRule(1) /\ UNCHANGED <<edits, ticked>>
    \/ /\ \E name \in NameInputs, p \in PriorityInputs, c \in CostInputs,
             d \in DeadlineInputs : createAdvancedTask(1, name, p, c, d)
       /\ UNCHANGED <<edits, ticked>>
    \/ /\ \E id \in 1..MaxTasks, h \in HourInputs : RunButton(1, id, h)
       /\ UNCHANGED <<edits, ticked>>
    \/ (\E h \in HourInputs : StartSession(1, h)) /\ UNCHANGED <<edits, ticked>>
    \/ pauseOrResume(1) /\ UNCHANGED <<edits, ticked>>
    \/ (\E n \in FocusInputs : SetFocusMinutes(1, n)) /\ UNCHANGED <<edits, ticked>>
    \/ (\E n \in BreakInputs : SetBreakMinutes(1, n)) /\ UNCHANGED <<edits, ticked>>
    \/ ToggleAdaptive(1) /\ UNCHANGED <<edits, ticked>>
    \/ AdvanceClock /\ UNCHANGED <<edits, ticked>>

Spec == Init /\ [][Next]_vars

\* Two tabs of the same origin: tab 1 is open, tab 2 is opened at any time and
\* loads what tab 1 persisted.  The handlers run in either tab and snapshots
\* are exchanged over the channel.  The handler runs of a behaviour, the ticks
\* of a countdown aside, are at most MaxEdits.
TabHours == {7}
TabMinutes == {0}

\* a handler run counted against MaxEdits
Edit ==
    /\ edits < MaxEdits
    /\ edits' = edits + 1
    /\ UNCHANGED ticked

NextTabs ==
    \/ OpenTab(2) /\ UNCHANGED <<edits, ticked>>
    \/ (\E t \in Tabs : syncHandler(t)) /\ UNCHANGED <<edits, ticked>>
    \/ (\E t \in Tabs : Tick(t)) /\ UNCHANGED <<edits, ticked>>
    \/ Edit /\ \E t \in Tabs : applyMissedDeadlineRule(t)
    \/ Edit /\ AdvanceClock
    \/ Edit /\ \E t \in Tabs, name \in NameInputs, p \in PriorityInputs,
                  c \in CostInputs, d \in DeadlineInputs :
                  createAdvancedTask(t, name, p, c, d)
    \/ Edit /\ \E t \in Tabs, id \in 1..MaxTasks, h \in TabHours :
                  RunButton(t, id, h)
    \/ Edit /\ \E t \in Tabs, h \in TabHours : StartSession(t, h)
    \/ Edit /\ \E t \in Tabs : pauseOrResume(t)
    \/ Edit /\ \E t \in Tabs, r \in RuleInputs : ToggleRule(t, r)
    \/ Edit /\ \E t \in Tabs, m \in ModeInputs : SetMode(t, m)
    \/ Edit /\ \E t \in Tabs, n \in TabMinutes : SetFocusMinutes(t, n)
    \/ Edit /\ \E t \in Tabs : ToggleAdaptive(t)

SpecTabs == Init /\ [][NextTabs]_vars

\* Replication on its own: the two tabs, the handlers that create, run and
\* pause tasks, and the dispatch of 'message' events.  The handler runs of a
\* behaviour are at most MaxEdits, so local mutations stop; the event
\* loop of a tab dispatches every queued 'message' event.
NextSync ==
    \/ OpenTab(2) /\ UNCHANGED <<edits, ticked>>
    \/ syncHandler(1) /\ UNCHANGED <<edits, ticked>>
    \/ syncHandler(2) /\ UNCHANGED <<edits, ticked>>
    \/ Edit /\ \E t \in Tabs, name \in NameInputs : createQuickTask(t, name)
    \/ Edit /\ \E t \in Tabs, id \in 1..MaxTasks, h \in TabHours :
                  RunButton(t, id, h)
    \/ Edit /\ \E t \in Tabs : pauseOrResume(t)

SpecSync ==
    /\ Init
    /\ [][NextSync]_vars
    /\ WF_vars(syncHandler(1) /\ UNCHANGED <<edits, ticked>>)
    /\ WF_vars(syncHandler(2) /\ UNCHANGED <<edits, ticked>>)

----------------------------------------------------------------------------
(* The calculator on drawn inputs.  The handlers build only sessions that  *)
(* are completed and call the calculator only with a task in the list; the *)
(* function is defined on every State, and SpecCalc applies it to states   *)
(* drawn from a bounded set.                                               *)

BaseInputs == {10, 15, 20, 25, 65, 70, 75}
\* the drawn mode is not the default one, and only its focus minutes are drawn
CalcModes == {"worker"}
CostLists == {<<>>, <<3>>, <<3, 4>>, <<3, 5>>}
RuleLists ==
    { <<"missed_deadline_requeue">>,
      <<"missed_deadline_requeue", "early_break_reduce_next">>,
      <<"missed_deadline_requeue", "streak_extend_session">>,
      <<"missed_deadline_requeue", "early_break_reduce_next",
        "streak_extend_session">> }
CalcHours == {0, 6, 7, 21, 22, 23}

\* every sequence of completed flags of length at most MaxHistory
FlagLists == UNION {[1..n -> BOOLEAN] : n \in 0..MaxHistory}

SessionOf(flag) ==
    [taskId |-> 1, plannedSeconds |-> 1500,
     completedSeconds |-> IF flag THEN 1500 ELSE 0,
     completed |-> flag, interrupted |-> ~flag]

CalcState(mode, base, flags, costs, rules, adaptive) ==
    [initialState EXCEPT
        !.tasks = [i \in 1..Len(costs) |-> NewTask(i, 3, costs[i], NoDeadline)],
        !.sessions = [i \in 1..Len(flags) |-> SessionOf(flags[i])],
        !.settings.mode = mode,
        !.settings.pomodoro[mode].focus = base,
        !.settings.adaptivePomodoro = adaptive,
        !.rules = rules]

InitCalc ==
    /\ open = {1}
    /\ \E mode \in CalcModes, base \in BaseInputs, flags \in FlagLists,
          costs \in CostLists, rules \in RuleLists, adaptive \in BOOLEAN :
          st = [t \in Tabs |->
                   IF t = 1
                   THEN CalcState(mode, base, flags, costs, rules, adaptive)
                   ELSE initialState]
    /\ inbox = [t \in Tabs |-> <<>>]
    /\ storage = <<>>
    /\ now = 1
    /\ nextId = 1
    /\ last = Ran("mount", 1)
    /\ edits = 0
    /\ ticked = [t \in Tabs |-> <<>>]

\* getAdaptiveFocusSeconds is called in tab t at the given hour of the day
Calculate(t, hour) ==
    /\ t \in open
    /\ last' = [op |-> "getAdaptiveFocusSeconds", tab |-> t, hour |-> hour,
                result |-> getAdaptiveFocusSeconds(st[t], hour)]
    /\ UNCHANGED <<open, st, inbox, storage, now, nextId>>

NextCalc == \E hour \in CalcHours : Calculate(1, hour) /\ UNCHANGED <<edits, ticked>>

SpecCalc == InitCalc /\ [][NextCalc]_vars

----------------------------------------------------------------------------
(* The missed-deadline rule on drawn inputs: task lists with every status, *)
(* with and without deadlines, at every time of the clock.                 *)

RuleDeadlines == {NoDeadline, 1, 2}

RuleTasks ==
    { [NewTask(1, 3, 3, d) EXCEPT !.state = s] :
          s \in TaskStates, d \in RuleDeadlines }

RuleTaskLists ==
    UNION { {[i \in 1..n |-> [f[i] EXCEPT !.id = i]] : f \in [1..n -> RuleTasks]} :
                n \in 0..MaxTasks }

InitRule ==
    /\ open = {1}
    /\ \E tasks \in RuleTaskLists, enabled \in BOOLEAN :
          st = [t \in Tabs |->
                   IF t = 1
                   THEN [initialState EXCEPT
                            !.tasks = tasks,
                            !.rules = IF enabled THEN initialState.rules
                                      ELSE Tail(initialState.rules)]
                   ELSE initialState]
    /\ inbox = [t \in Tabs |-> <<>>]
    /\ storage = <<>>
    /\ now \in 1..MaxNow
    /\ nextId = MaxTasks + 1
    /\ last = Ran("mount", 1)
    /\ edits = 0
    /\ ticked = [t \in Tabs |-> <<>>]

NextRule == applyMissedDeadlineRule(1) /\ UNCHANGED <<edits, ticked>>

SpecRule == InitRule /\ [][NextRule]_vars

----------------------------------------------------------------------------
(* The tick on drawn inputs: every phase, running or not, in the last      *)
(* seconds of a one-minute countdown, with and without an active task.     *)

\* the drawn countdowns have at most this many seconds left
MaxRemaining == 2

TimerTaskLists ==
    { <<>>,
      <<NewTask(1, 3, 3, NoDeadline)>>,
      <<[NewTask(1, 5, 5, 1) EXCEPT !.state = "Running"],
        NewTask(2, 3, 3, NoDeadline)>>,
      <<[NewTask(1, 3, 3, NoDeadline) EXCEPT !.state = "Suspended"]>>,
      <<[NewTask(1, 3, 3, NoDeadline) EXCEPT !.state = "Completed",
                                             !.totalFocusSeconds = 1500],
        [NewTask(2, 5, 5, 1) EXCEPT !.state = "Running"]>> }

TimerModes == {"student", "worker"}

InitTimer ==
    /\ open = {1}
    /\ \E tasks \in TimerTaskLists, phase \in {"focus", "break"},
          running \in BOOLEAN, remaining \in 0..MaxRemaining,
          mode \in TimerModes, adaptive \in BOOLEAN,
          sessions \in {<<>>, <<SessionOf(TRUE)>>} :
          \E active \in {NoTask} \cup {tasks[i].id : i \in 1..Len(tasks)} :
             st = [t \in Tabs |->
                      [initialState EXCEPT
                          !.tasks = tasks,
                          !.sessions = sessions,
                          !.activeTaskId = active,
                          !.settings.mode = mode,
                          !.settings.adaptivePomodoro = adaptive,
                          !.timer = [phase |-> phase, running |-> running,
                                     remaining |-> remaining,
                                     total |-> SecondsPerMinute]]]
    /\ inbox = [t \in Tabs |-> <<>>]
    /\ storage = <<>>
    /\ now = 1
    /\ nextId = MaxTasks + 1
    /\ last = Ran("mount", 1)
    /\ edits = 0
    /\ ticked = [t \in Tabs |-> <<>>]

NextTimer == Tick(1) /\ UNCHANGED <<edits, ticked>>

SpecTimer == InitTimer /\ [][NextTimer]_vars

----------------------------------------------------------------------------
(* A focus phase left to run: states in which the timer runs in focus with *)
(* an active task, at the start of the countdown and in its last seconds,  *)
(* and from there the operations of one tab that touch tasks or the break  *)
(* (tick, missed-deadline rule, task creation, break minutes), without     *)
(* Run, Start Session and Pause / Resume.  setInterval keeps the tick      *)
(* firing: weak fairness.                                                  *)

LiveTaskLists ==
    { <<[NewTask(1, 3, 3, NoDeadline) EXCEPT !.state = "Running"]>>,
      <<[NewTask(1, 5, 5, 1) EXCEPT !.state = "Running"]>>,
      \* requeued by the missed-deadline rule while active
      <<NewTask(1, 5, 5, 1)>>,
      <<[NewTask(1, 3, 3, NoDeadline) EXCEPT !.state = "Suspended"],
        [NewTask(2, 5, 5, 1) EXCEPT !.state = "Running"]>> }

InitLive ==
    /\ open = {1}
    /\ \E tasks \in LiveTaskLists,
          remaining \in (0..MaxRemaining) \cup {SecondsPerMinute},
          breakMinutes \in {0, 1} :
          /\ st = [t \in Tabs |->
                      [initialState EXCEPT
                          !.tasks = tasks,
                          !.activeTaskId = tasks[Len(tasks)].id,
                          !.settings.pomodoro.student =
                              [focus |-> 1, break |-> breakMinutes],
                          !.timer = [phase |-> "focus", running |-> TRUE,
                                     remaining |-> remaining,
                                     total |-> SecondsPerMinute]]]
          /\ nextId = Len(tasks) + 1
    /\ inbox = [t \in Tabs |-> <<>>]
    /\ storage = <<>>
    /\ now = 1
    /\ last = Ran("runTask", 1)
    /\ edits = 0
    /\ ticked = [t \in Tabs |-> <<>>]

NextLive ==
    \/ Tick(1) /\ UNCHANGED <<edits, ticked>>
    \/ applyMissedDeadlineRule(1) /\ UNCHANGED <<edits, ticked>>
    \/ AdvanceClock /\ UNCHANGED <<edits, ticked>>
    \/ /\ \E name \in NameInputs, p \in PriorityInputs, c \in CostInputs,
             d \in DeadlineInputs : createAdvancedTask(1, name, p, c, d)
       /\ UNCHANGED <<edits, ticked>>
    \/ (\E n \in BreakInputs : SetBreakMinutes(1, n)) /\ UNCHANGED <<edits, ticked>>

SpecLive ==
    /\ InitLive
    /\ [][NextLive]_vars
    /\ WF_vars(Tick(1) /\ UNCHANGED <<edits, ticked>>)

----------------------------------------------------------------------------
(* Two tabs open on the same running timer and no user at either: each     *)
(* tab's interval fires its tick, each state change is broadcast and each  *)
(* tab dispatches the snapshots it receives.  The two intervals are not    *)
(* synchronised, so the ticks and dispatches interleave in any order.      *)

ClockTaskLists ==
    { <<[NewTask(1, 3, 3, NoDeadline) EXCEPT !.state = "Running"]>>,
      <<[NewTask(1, 3, 3, NoDeadline) EXCEPT !.state = "Suspended"],
        [NewTask(2, 5, 5, 1) EXCEPT !.state = "Running"]>> }

InitClock ==
    /\ open = Tabs
    /\ \E tasks \in ClockTaskLists, remaining \in 0..(MaxRemaining + 2) :
          /\ st = [t \in Tabs |->
                      [initialState EXCEPT
                          !.tasks = tasks,
                          !.activeTaskId = tasks[Len(tasks)].id,
                          !.settings.pomodoro.student =
                              [focus |-> 1, break |-> 0],
                          !.timer = [phase |-> "focus", running |-> TRUE,
                                     remaining |-> remaining,
                                     total |-> SecondsPerMinute]]]
          /\ storage = <<Stringify(st[1])>>
          /\ nextId = Len(tasks) + 1
    /\ inbox = [t \in Tabs |-> <<>>]
    /\ now = 1
    /\ last = Ran("syncHandler", 2)
    /\ edits = 0
    /\ ticked = [t \in Tabs |-> <<>>]

\* the tick of tab t, with what it left in timer.remaining recorded
TickRecorded(t) ==
    /\ Tick(t)
    /\ ticked' = [ticked EXCEPT ![t] = <<st'[t].timer.remaining>>]
    /\ UNCHANGED edits

NextClock ==
    \/ TickRecorded(1)
    \/ TickRecorded(2)
    \/ syncHandler(1) /\ UNCHANGED <<edits, ticked>>
    \/ syncHandler(2) /\ UNCHANGED <<edits, ticked>>

SpecClock == InitClock /\ [][NextClock]_vars

----------------------------------------------------------------------------
(* The display ordering on drawn inputs: every task list of at most        *)
(* MaxShown tasks, each of any status and of a low or a high               *)
(* priority, with at most one Running task, which is then the active one.  *)

ShownPriorities == {1, 5}

ShownTaskLists ==
    UNION {{[i \in 1..n |->
               [NewTask(i, f[i][2], 3, NoDeadline) EXCEPT !.state = f[i][1]]] :
            f \in [1..n -> TaskStates \X ShownPriorities]} : n \in 0..MaxShown}

RunningIn(tasks) == {i \in 1..Len(tasks) : tasks[i].state = "Running"}

InitSort ==
    /\ open = {1}
    /\ \E tasks \in ShownTaskLists :
          /\ Cardinality(RunningIn(tasks)) <= 1
          /\ st = [t \in Tabs |->
                      [initialState EXCEPT
                          !.tasks = tasks,
                          !.activeTaskId =
                              IF RunningIn(tasks) = {} THEN NoTask
                              ELSE tasks[CHOOSE i \in RunningIn(tasks) : TRUE].id]]
          /\ nextId = Len(tasks) + 1
    /\ inbox = [t \in Tabs |-> <<>>]
    /\ storage = <<>>
    /\ now = 1
    /\ last = Ran("mount", 1)
    /\ edits = 0
    /\ ticked = [t \in Tabs |-> <<>>]

\* a render computes sortedTasks from the state and shows it
Render(t) ==
    /\ t \in open
    /\ last' = [op |-> "render", tab |-> t, shown |-> sortedTasks(st[t])]
    /\ UNCHANGED <<open, st, inbox, storage, now, nextId>>

NextSort == Render(1) /\ UNCHANGED <<edits, ticked>>

SpecSort == InitSort /\ [][NextSort]_vars

----------------------------------------------------------------------------
(* Task creation on drawn inputs: names that are blank, white space only,  *)
(* and not blank with and without white space around them; states with no  *)
(* task or one task of every status, active or not.                        *)

DrawnNames == {<<>>, <<" ">>, <<" ", " ">>, <<"a">>, <<" ", "a", " ">>}

CreateTaskLists ==
    {<<>>} \cup {<<[NewTask(1, 5, 5, 1) EXCEPT !.state = x]>> : x \in TaskStates}

CreateTimers ==
    { initialState.timer,
      [phase |-> "focus", running |-> TRUE, remaining |-> 1500, total |-> 1500],
      [phase |-> "focus", running |-> FALSE, remaining |-> 0, total |-> 1500],
      [phase |-> "break", running |-> TRUE, remaining |-> 300, total |-> 300] }

InitCreate ==
    /\ open = {1}
    /\ \E tasks \in CreateTaskLists, timer \in CreateTimers,
          sessions \in {<<>>, <<SessionOf(TRUE)>>} :
          \E active \in {NoTask} \cup {tasks[i].id : i \in 1..Len(tasks)} :
             \* a Running task is the active one, a Completed task is not
             /\ \A i \in 1..Len(tasks) :
                   /\ tasks[i].state = "Running" => active = tasks[i].id
                   /\ tasks[i].state = "Completed" => active # tasks[i].id
             /\ st = [t \in Tabs |->
                         [initialState EXCEPT
                             !.tasks = tasks,
                             !.sessions = sessions,
                             !.streak = Len(sessions),
                             !.activeTaskId = active,
                             !.timer = timer]]
             /\ nextId = Len(tasks) + 1
    /\ inbox = [t \in Tabs |-> <<>>]
    /\ storage = <<>>
    /\ now = 1
    /\ last = Ran("mount", 1)
    /\ edits = 0
    /\ ticked = [t \in Tabs |-> <<>>]

NextCreate ==
    \/ (\E name \in DrawnNames : createQuickTask(1, name)) /\ UNCHANGED <<edits, ticked>>
    \/ /\ \E name \in DrawnNames, p \in PriorityInputs, c \in CostInputs,
             d \in DeadlineInputs \cup {NoDeadline} :
             createAdvancedTask(1, name, p, c, d)
       /\ UNCHANGED <<edits, ticked>>

SpecCreate == InitCreate /\ [][NextCreate]_vars

----------------------------------------------------------------------------
(* The loader on drawn inputs: no tab is open, and storage holds what an   *)
(* earlier session wrote (st keeps the state that session held), or no     *)
(* item, or a text that is not the JSON of an object.  Settings written by *)
(* an earlier version of the application may lack fields.                  *)

StoredSettings ==
    << defaultSettings,
       [ mode |-> "worker",
         pomodoro |-> [ student |-> [focus |-> 30, break |-> 4],
                        worker  |-> [focus |-> 45, break |-> 9],
                        custom  |-> [focus |-> 20, break |-> 3] ],
         adaptivePomodoro |-> FALSE ],
       [ mode |-> "custom" ],
       [ pomodoro |-> [ student |-> [focus |-> 30, break |-> 4] ],
         adaptivePomodoro |-> FALSE ],
       [ mode |-> "worker",
         pomodoro |-> [ worker |-> [focus |-> 45, break |-> 9],
                        custom |-> [focus |-> 20, break |-> 3] ] ],
       [ adaptivePomodoro |-> FALSE ] >>

StoredStates ==
    << initialState,
       [initialState EXCEPT !.keyOrder = "appended"],
       [initialState EXCEPT !.tasks = <<NewTask(1, 3, 3, NoDeadline)>>],
       [initialState EXCEPT
           !.tasks = <<NewTask(1, 3, 3, NoDeadline), NewTask(2, 5, 5, 1)>>,
           !.rules = <<"early_break_reduce_next">>],
       [initialState EXCEPT
           !.tasks = <<[NewTask(1, 5, 5, 1) EXCEPT !.state = "Running"]>>,
           !.activeTaskId = 1,
           !.timer = [phase |-> "focus", running |-> TRUE,
                      remaining |-> 900, total |-> 1500]],
       [initialState EXCEPT
           !.tasks = <<[NewTask(1, 3, 3, NoDeadline) EXCEPT
                           !.state = "Suspended"]>>,
           !.activeTaskId = 1,
           !.keyOrder = "appended",
           !.timer = [phase |-> "focus", running |-> FALSE,
                      remaining |-> 900, total |-> 1500]],
       [initialState EXCEPT
           !.tasks = <<[NewTask(1, 3, 3, NoDeadline) EXCEPT
                           !.state = "Completed",
                           !.totalFocusSeconds = 1500]>>,
           !.sessions = <<SessionOf(TRUE)>>,
           !.streak = 1,
           !.timer = [phase |-> "break", running |-> TRUE,
                      remaining |-> 300, total |-> 300]] >>

\* texts in storage that are not the JSON of an object
Texts == {"", "{oops", "null"}

\* j = 0: the stored state has no settings at all
WithSettings(s, j) ==
    IF j = 0 THEN Drop(s, "settings")
    ELSE [s EXCEPT !.settings = StoredSettings[j]]

InitLoad ==
    /\ open = {}
    /\ \/ \E i \in 1..Len(StoredStates), j \in 0..Len(StoredSettings) :
             /\ st = [t \in Tabs |-> WithSettings(StoredStates[i], j)]
             /\ storage = <<Stringify(WithSettings(StoredStates[i], j))>>
       \/ /\ st = [t \in Tabs |-> initialState]
          /\ storage \in {<<>>} \cup {<<[text |-> x]>> : x \in Texts}
    /\ inbox = [t \in Tabs |-> <<>>]
    /\ now = 1
    /\ nextId = MaxTasks + 1
    /\ last = Ran("closed", 1)
    /\ edits = 0
    /\ ticked = [t \in Tabs |-> <<>>]

NextLoad == (\E t \in Tabs : OpenTab(t)) /\ UNCHANGED <<edits, ticked>>

SpecLoad == InitLoad /\ [][NextLoad]_vars

----------------------------------------------------------------------------
(* Claims about the handlers, as properties of the steps they take.        *)

ActiveTask(s) == TaskById(s, s.activeTaskId)

RunningCount(s) ==
    Cardinality({i \in 1..Len(s.tasks) : s.tasks[i].state = "Running"})

\* C1: in every state reachable by create-task, Run task, Pause/Resume, the
\* tick, the missed-deadline rule, the rule and settings toggles and cross-tab
\* snapshot replacement, every open tab holds at most one task with status
\* Running; so does every snapshot on its way to a tab.
C1_AtMostOneRunning ==
    /\ \A t \in open : RunningCount(st[t]) <= 1
    /\ \A t \in Tabs : \A i \in 1..Len(inbox[t]) : RunningCount(inbox[t][i]) <= 1

\* C1 witness: a tab has just replaced its state by a snapshot of the other
\* tab, taken after a second task was run: one task Running, one Suspended
C1_ReplacedWithOneRunning ==
    /\ last.op = "syncHandler"
    /\ open = Tabs
    /\ Len(st[last.tab].tasks) = 2
    /\ RunningCount(st[last.tab]) = 1
    /\ \E i \in 1..2 : st[last.tab].tasks[i].state = "Suspended"
    /\ \E u \in Tabs : Stringify(st[u]) # Stringify(st[last.tab])

\* what claim C2 promises of the step runTask(t, taskId, hour)
RunTaskPromise(t, taskId, hour) ==
    LET pre == st[t]
        post == st'[t]
        duration == getAdaptiveFocusSeconds(pre, hour)
    IN  /\ TaskById(post, taskId).state = "Running"
        /\ post.activeTaskId = taskId
        /\ \A i \in 1..Len(pre.tasks) :
              (pre.tasks[i].id # taskId /\ pre.tasks[i].state = "Running")
                  => post.tasks[i].state = "Suspended"
        /\ post.timer = [phase |-> "focus", running |-> TRUE,
                         remaining |-> duration, total |-> duration]

\* C2: for every task T of the list, also when T is already the active Running
\* task, after Run task T: T is Running, the active task id is T, any other
\* task that was Running is Suspended, and the timer is focus / running with
\* remaining = total = the duration of the adaptive calculator.
C2_RunTaskMakesTaskRunning ==
    [][\A t \in Tabs, taskId \in 1..MaxTasks, hour \in 0..23 :
          (taskId \in TaskIds(st[t]) /\ runTask(t, taskId, hour))
              => RunTaskPromise(t, taskId, hour)]_vars

\* C3 (as amended): after Pause/Resume in a state with an active task,
\* timer.running is toggled and the active task is Running exactly when the
\* timer is running and Suspended exactly when it is not.
C3_PauseResumeMatchesTimer ==
    [][\A t \in Tabs :
          pauseOrResume(t) =>
              /\ st'[t].timer.running = ~st[t].timer.running
              /\ st'[t].activeTaskId = st[t].activeTaskId
              /\ ActiveTask(st'[t]).state = "Running" <=> st'[t].timer.running
              /\ ActiveTask(st'[t]).state = "Suspended" <=> ~st'[t].timer.running]_vars

\* C3 witness: Pause/Resume has just paused the running task in mid-countdown
C3_PausedAndResumed ==
    /\ last.op = "pauseOrResume"
    /\ HasActiveTask(st[1])
    /\ ActiveTask(st[1]).state = "Suspended"
    /\ ~st[1].timer.running
    /\ st[1].timer.remaining < st[1].timer.total

\* C3 as first stated: in every reachable state with an active task, the
\* active task is Running if and only if the timer is running.
C3_ActiveRunningIffTimerRunning ==
    \A t \in open :
        HasActiveTask(st[t]) =>
            (ActiveTask(st[t]).state = "Running" <=> st[t].timer.running)

FocusExpiryDue(s) ==
    /\ s.timer.running
    /\ s.timer.remaining = 0
    /\ s.timer.phase = "focus"
    /\ HasActiveTask(s)

\* the state claim C4 promises after the focus phase of pre expired
FocusExpiryPromise(pre, post) ==
    LET T == pre.activeTaskId
        breakSeconds == pre.settings.pomodoro[pre.settings.mode].break * 60
    IN  /\ Len(post.sessions) = Len(pre.sessions) + 1
        /\ SubSeq(post.sessions, 1, Len(pre.sessions)) = pre.sessions
        /\ post.sessions[Len(post.sessions)] =
               [taskId |-> T, plannedSeconds |-> pre.timer.total,
                completedSeconds |-> pre.timer.total,
                completed |-> TRUE, interrupted |-> FALSE]
        /\ Len(post.tasks) = Len(pre.tasks)
        /\ \A i \in 1..Len(pre.tasks) :
              IF pre.tasks[i].id = T
              THEN /\ post.tasks[i].state = "Completed"
                   /\ post.tasks[i].totalFocusSeconds =
                          pre.tasks[i].totalFocusSeconds + pre.timer.total
              ELSE post.tasks[i] = pre.tasks[i]
        /\ post.streak = pre.streak + 1
        /\ post.activeTaskId = NoTask
        /\ post.timer = [phase |-> "break", running |-> TRUE,
                         remaining |-> breakSeconds, total |-> breakSeconds]

\* C4: a tick with running, remaining = 0, phase = focus and an active task T
\* appends exactly one completed Session for T, completes T and adds
\* timer.total to its focus seconds, adds 1 to streak, clears the active task
\* id and starts the break of the current mode; other tasks are unchanged.
C4_FocusExpiry ==
    [][\A t \in Tabs :
          (FocusExpiryDue(st[t]) /\ Tick(t))
              => FocusExpiryPromise(st[t], st'[t])]_vars

\* C4 witness: the tick has just ended a focus phase of a task
C4_FocusExpired ==
    /\ last.op = "tick"
    /\ st[1].timer.phase = "break"
    /\ st[1].timer.running
    /\ st[1].timer.remaining = st[1].timer.total
    /\ st[1].activeTaskId = NoTask
    /\ st[1].streak = 1
    /\ Len(st[1].sessions) = 1
    /\ Len(st[1].tasks) = 2
    /\ \E i \in 1..2 :
          /\ st[1].tasks[i].state = "Completed"
          /\ st[1].tasks[i].totalFocusSeconds = 60
          /\ st[1].sessions[1].taskId = st[1].tasks[i].id

\* C5: a tick at remaining = 1, phase = focus, running, with active task T
\* produces no state with remaining = 0 in the focus phase: that tick fires
\* the focus expiry (Session for T, T Completed, streak + 1, break started).
C5_LastSecondTickExpires ==
    [][\A t \in Tabs :
          (/\ st[t].timer.running
           /\ st[t].timer.remaining = 1
           /\ st[t].timer.phase = "focus"
           /\ HasActiveTask(st[t])
           /\ Tick(t))
              => /\ ~(st'[t].timer.phase = "focus" /\ st'[t].timer.remaining = 0)
                 /\ FocusExpiryPromise(st[t], st'[t])]_vars

----------------------------------------------------------------------------
(* Claims about the calculator (SpecCalc).                                 *)

Calculated == last.op = "getAdaptiveFocusSeconds"

BaseFocusMinutes(s) == s.settings.pomodoro[s.settings.mode].focus

\* C6: with adaptive mode disabled the calculator returns base focus minutes
\* of the current mode * 60, whatever the sessions, tasks, rules and hour,
\* and without clamping.
C6_DisabledReturnsBase ==
    (Calculated /\ ~st[last.tab].settings.adaptivePomodoro)
        => last.result = BaseFocusMinutes(st[last.tab]) * 60

\* C6 witness: adaptive mode is off, the history is poor, the hour is late,
\* and the result is the 10 base minutes, below the clamp's 15
C6_DisabledBelowClamp ==
    /\ Calculated
    /\ ~st[1].settings.adaptivePomodoro
    /\ BaseFocusMinutes(st[1]) = 10
    /\ last.result = 600
    /\ last.hour = 23
    /\ Len(st[1].sessions) = 7
    /\ \A i \in 1..7 : ~st[1].sessions[i].completed
    /\ st[1].tasks # <<>>

\* the claim's own terms: the modifiers of C7
Indicator(b) == IF b THEN 1 ELSE 0

RecentFlags(s) ==
    [i \in 1..Min2(6, Len(s.sessions)) |->
        s.sessions[Len(s.sessions) - Min2(6, Len(s.sessions)) + i].completed]

RecentCompleted(s) ==
    Cardinality({i \in DOMAIN RecentFlags(s) : RecentFlags(s)[i]})

\* rate < 0.5, rate > 0.8: rate = RecentCompleted / Len(RecentFlags), or 1
RateLow(s) ==
    Len(RecentFlags(s)) > 0 /\ 10 * RecentCompleted(s) < 5 * Len(RecentFlags(s))

RateHigh(s) ==
    Len(RecentFlags(s)) = 0 \/ 10 * RecentCompleted(s) > 8 * Len(RecentFlags(s))

CostHigh(s) ==
    Len(s.tasks) > 0
    /\ SumCost(s.tasks) >= 4 * Len(s.tasks)

OffHours(hour) == hour >= 22 \/ hour < 7

Shortens(s) == RateLow(s) /\ Includes(s.rules, "early_break_reduce_next")

Extends(s) == RateHigh(s) /\ Includes(s.rules, "streak_extend_session")

ClaimedMinutes(s, hour) ==
    LET raw == BaseFocusMinutes(s)
               - 5 * Indicator(Shortens(s))
               + 5 * Indicator(Extends(s))
               + 5 * Indicator(CostHigh(s))
               - 5 * Indicator(OffHours(hour))
    IN  IF raw < 15 THEN 15 ELSE IF raw > 70 THEN 70 ELSE raw

\* C7: with adaptive mode enabled the result is
\* 60 * clamp(base - 5*[rate < 0.5 and shorten] + 5*[rate > 0.8 and extend]
\*            + 5*[mean cost >= 4] - 5*[hour >= 22 or hour < 7], 15, 70);
\* it lies in [900, 4200]; rate > 0.8 with extend and no other modifier gives
\* base + 5, and an off hour with no other modifier gives base - 5 (within
\* the clamp; 25 -> 20 minutes).
C7_AdaptiveFormula ==
    (Calculated /\ st[last.tab].settings.adaptivePomodoro) =>
        LET s == st[last.tab]
            base == BaseFocusMinutes(s)
        IN  /\ last.result = 60 * ClaimedMinutes(s, last.hour)
            /\ last.result >= 900 /\ last.result <= 4200
            /\ (Extends(s) /\ ~Shortens(s) /\ ~CostHigh(s) /\ ~OffHours(last.hour)
                 /\ base + 5 >= 15 /\ base + 5 <= 70)
                    => last.result = 60 * (base + 5)
            /\ (~Extends(s) /\ ~Shortens(s) /\ ~CostHigh(s) /\ OffHours(last.hour)
                 /\ base - 5 >= 15 /\ base - 5 <= 70)
                    => last.result = 60 * (base - 5)
            /\ (~Extends(s) /\ ~Shortens(s) /\ ~CostHigh(s) /\ last.hour = 23
                 /\ base = 25)
                    => last.result = 20 * 60

\* C7 witness: at hour 23, base 25, four of the five recent sessions completed
\* (rate exactly 0.8) and no other modifier: the result is 20 minutes
C7_LateHourGivesTwenty ==
    /\ Calculated
    /\ st[1].settings.adaptivePomodoro
    /\ last.hour = 23
    /\ BaseFocusMinutes(st[1]) = 25
    /\ Len(st[1].sessions) = 5
    /\ RecentCompleted(st[1]) = 4
    /\ Includes(st[1].rules, "streak_extend_session")
    /\ ~CostHigh(st[1])
    /\ last.result = 1200

----------------------------------------------------------------------------
(* Claims about the missed-deadline rule (SpecRule).                       *)

RuleEnabled(s) == Includes(s.rules, "missed_deadline_requeue")

Missed(task, time) ==
    /\ task.deadline # NoDeadline
    /\ task.deadline < time
    /\ task.state # "Completed"

\* C8: when the rule is enabled and applied, every task whose deadline is
\* strictly in the past and whose status is not Completed ends Queued, and
\* every other task is left unchanged; when the rule is disabled, applying it
\* changes no task.
C8_MissedDeadlineRequeues ==
    [][\A t \in Tabs :
          applyMissedDeadlineRule(t) =>
              /\ Len(st'[t].tasks) = Len(st[t].tasks)
              /\ \A i \in 1..Len(st[t].tasks) :
                    IF RuleEnabled(st[t]) /\ Missed(st[t].tasks[i], now)
                    THEN st'[t].tasks[i].state = "Queued"
                    ELSE st'[t].tasks[i] = st[t].tasks[i]]_vars

\* C8 witness: the rule has run at time 2; a Completed task whose deadline 1
\* has passed is still Completed, a task whose deadline is 2 is still
\* Suspended
C8_RuleApplied ==
    /\ last.op = "applyMissedDeadlineRule"
    /\ RuleEnabled(st[1])
    /\ now = 2
    /\ Len(st[1].tasks) = 2
    /\ st[1].tasks[1].deadline = 1 /\ st[1].tasks[1].state = "Completed"
    /\ st[1].tasks[2].deadline = 2 /\ st[1].tasks[2].state = "Suspended"

AllMissedQueued(s, time) ==
    \A i \in 1..Len(s.tasks) :
        Missed(s.tasks[i], time) => s.tasks[i].state = "Queued"

\* C9: at a fixed time, applying the rule right after applying it changes
\* nothing, and applying it to a state in which every past-deadline task that
\* is not Completed is already Queued yields a state equal to the input.
C9_MissedDeadlineIdempotent ==
    [][\A t \in Tabs :
          applyMissedDeadlineRule(t) =>
              /\ (last.op = "applyMissedDeadlineRule" /\ last.tab = t)
                    => st'[t] = st[t]
              /\ AllMissedQueued(st[t], now) => st'[t] = st[t]]_vars

\* C9 witness: the rule has run with tasks to requeue: two tasks past their
\* deadline are Queued
C9_RequeuedOnce ==
    /\ last.op = "applyMissedDeadlineRule"
    /\ RuleEnabled(st[1])
    /\ now = 2
    /\ Len(st[1].tasks) = 2
    /\ \A i \in 1..2 :
          st[1].tasks[i].deadline = 1 /\ st[1].tasks[i].state = "Queued"

----------------------------------------------------------------------------
(* Claims about the replication (SpecSync).                                *)

\* no snapshot is on its way and the open tabs hold the same state by value
Converged ==
    /\ InFlight = 0
    /\ \A t \in open : \A u \in open : Stringify(st[t]) = Stringify(st[u])

\* C10: once the local mutations have stopped, the exchange of messages
\* eventually quiesces and all tabs hold the same state by value, for good:
\* no behaviour keeps swapping differing snapshots forever.
C10_EventuallyConsistent == <>[]Converged

\* equal by value: the same fields with the same values, in whatever order
SameValue(a, b) == Drop(a, "keyOrder") = Drop(b, "keyOrder")

\* C11: a tab that receives a snapshot replaces its state by the normalized
\* snapshot if and only if the snapshot differs by value from its state; on a
\* snapshot equal by value the state stays as it is and the message causes no
\* storage write and no broadcast.
C11_ReplacesIffDiffersByValue ==
    [][\A t \in Tabs :
          syncHandler(t) =>
              LET incoming == normalizeState(Head(inbox[t]))
              IN  IF SameValue(st[t], incoming)
                  THEN /\ st'[t] = st[t]
                       /\ storage' = storage
                       /\ \A u \in Tabs \ {t} : inbox'[u] = inbox[u]
                  ELSE st'[t] = incoming]_vars

----------------------------------------------------------------------------
(* Claims about the loader (SpecLoad).                                     *)

\* the settings of s, every missing field and every missing per-mode
\* pomodoro entry taken from the default settings
BackfilledSettings(s) ==
    LET given == IF "settings" \in DOMAIN s THEN s.settings ELSE <<>>
    IN  [k \in DOMAIN defaultSettings |->
            IF k = "pomodoro"
            THEN [m \in Modes |->
                     IF "pomodoro" \in DOMAIN given
                        /\ m \in DOMAIN given.pomodoro
                     THEN given.pomodoro[m]
                     ELSE defaultSettings.pomodoro[m]]
            ELSE IF k \in DOMAIN given THEN given[k]
            ELSE defaultSettings[k]]

Backfilled(s) ==
    [k \in DOMAIN s \cup {"settings"} |->
        IF k = "settings" THEN BackfilledSettings(s) ELSE s[k]]

HasAllSettings(s) ==
    /\ "settings" \in DOMAIN s
    /\ DOMAIN s.settings = DOMAIN defaultSettings
    /\ DOMAIN s.settings.pomodoro = Modes

\* C12: a state written to storage and loaded at startup comes back equal
\* field for field, except that missing settings fields (per-mode pomodoro
\* entries included) hold the default values; loading a state that has all
\* settings fields gives the state that was written.
C12_StorageRoundTrip ==
    [][\A t \in Tabs :
          OpenTab(t) =>
              \A w \in Tabs :
                  storage = <<Stringify(st[w])>> =>
                      /\ SameValue(st'[t], Backfilled(st[w]))
                      /\ HasAllSettings(st[w]) => SameValue(st'[t], st[w])]_vars

\* C12 witness: tab 1 has loaded a state stored with the task list, the rule
\* list and only the worker and custom pomodoro entries: the student entry
\* is the default one, the stored entries and the tasks are as written
C12_LoadedWithBackfill ==
    /\ last.op = "mount" /\ last.tab = 1 /\ open = {1}
    /\ "settings" \in DOMAIN st[2]
    /\ "pomodoro" \in DOMAIN st[2].settings
    /\ "student" \notin DOMAIN st[2].settings.pomodoro
    /\ st[1].settings.pomodoro.student = defaultSettings.pomodoro.student
    /\ st[1].settings.pomodoro.worker = [focus |-> 45, break |-> 9]
    /\ st[1].settings.adaptivePomodoro
    /\ Len(st[1].tasks) = 2 /\ st[1].tasks = st[2].tasks

\* the default initial state, spelled out
IsDefaultState(s) ==
    /\ s.tasks = <<>>
    /\ s.sessions = <<>>
    /\ s.settings = defaultSettings
    /\ s.timer = [phase |-> "focus", running |-> FALSE,
                  remaining |-> 1500, total |-> 1500]
    /\ s.activeTaskId = NoTask
    /\ s.streak = 0
    /\ Len(s.rules) = 3
    /\ \A r \in RuleTemplates : Includes(s.rules, r)

\* C13: at startup, if the stored value is absent or cannot be deserialized,
\* the application starts in the default initial state: no tasks, no
\* sessions, default settings, timer focus / not running / 1500 s remaining
\* and total, no active task, streak 0, all three rules enabled.
C13_FallsBackToDefault ==
    [][\A t \in Tabs :
          (OpenTab(t) /\ (storage = <<>> \/ IsText(storage[1])))
              => IsDefaultState(st'[t])]_vars

\* C13 witness: tab 1 was mounted over a stored text that is not JSON and
\* holds the default state, which it has written to storage
C13_MountedOverBrokenText ==
    /\ last.op = "mount" /\ last.tab = 1
    /\ last.raw = <<[text |-> "{oops"]>>
    /\ IsDefaultState(st[1])
    /\ storage = <<Stringify(st[1])>>

----------------------------------------------------------------------------
(* Claims about the tick (SpecTimer).                                      *)

\* C14: a tick with running = true and remaining > 0 takes 1 from remaining
\* and changes nothing else: phase, total, running, tasks, sessions, streak,
\* active task id, settings and rules are as before.
C14_TickDecrementsOnly ==
    [][\A t \in Tabs :
          (Tick(t) /\ st[t].timer.running /\ st[t].timer.remaining > 0)
              => /\ st'[t].timer.remaining = st[t].timer.remaining - 1
                 /\ st'[t].timer.phase = st[t].timer.phase
                 /\ st'[t].timer.total = st[t].timer.total
                 /\ st'[t].timer.running
                 /\ st'[t].tasks = st[t].tasks
                 /\ st'[t].sessions = st[t].sessions
                 /\ st'[t].streak = st[t].streak
                 /\ st'[t].activeTaskId = st[t].activeTaskId
                 /\ st'[t].settings = st[t].settings
                 /\ st'[t].rules = st[t].rules]_vars

\* C14 witness: a tick has taken the focus countdown of the Running active
\* task from 2 to 1
C14_CountedDown ==
    /\ last.op = "tick"
    /\ st[1].timer = [phase |-> "focus", running |-> TRUE,
                      remaining |-> 1, total |-> SecondsPerMinute]
    /\ HasActiveTask(st[1])
    /\ ActiveTask(st[1]).state = "Running"

\* C15: a tick while timer.running is false leaves the whole state as it is,
\* in every phase and for every value of remaining, 0 included; nothing is
\* written or broadcast.
C15_PausedTickInert ==
    [][\A t \in Tabs :
          (Tick(t) /\ ~st[t].timer.running)
              => /\ st'[t] = st[t]
                 /\ storage' = storage
                 /\ inbox' = inbox]_vars

\* C15 witness: a tick has fired on a focus countdown paused in its last
\* second, the active task Suspended
C15_TickedWhilePaused ==
    /\ last.op = "tick"
    /\ st[1].timer = [phase |-> "focus", running |-> FALSE,
                      remaining |-> 1, total |-> SecondsPerMinute]
    /\ HasActiveTask(st[1])
    /\ ActiveTask(st[1]).state = "Suspended"

\* the hours of the day
Hours == 0..23

BreakExpiryDue(s) ==
    /\ s.timer.running
    /\ s.timer.remaining = 0
    /\ s.timer.phase = "break"

\* C16: a tick with running = true, remaining = 0 and phase = break makes the
\* timer phase = focus, running = false, remaining = total = the focus
\* duration of the current mode, adaptive when adaptive mode is enabled and
\* fixed otherwise (getAdaptiveFocusSeconds, at whatever hour of the day);
\* active task id, tasks, sessions and streak are unchanged.
C16_BreakExpiry ==
    [][\A t \in Tabs :
          (Tick(t) /\ BreakExpiryDue(st[t]))
              => /\ \E hour \in Hours :
                       st'[t].timer =
                           [phase |-> "focus", running |-> FALSE,
                            remaining |-> getAdaptiveFocusSeconds(st[t], hour),
                            total |-> getAdaptiveFocusSeconds(st[t], hour)]
                 /\ st'[t].activeTaskId = st[t].activeTaskId
                 /\ st'[t].tasks = st[t].tasks
                 /\ st'[t].sessions = st[t].sessions
                 /\ st'[t].streak = st[t].streak]_vars

----------------------------------------------------------------------------
(* Claims about the session list (SpecTabs).                               *)

IsPrefix(a, b) == Len(a) <= Len(b) /\ SubSeq(b, 1, Len(a)) = a

\* C17: sessions are immutable once appended: across every transition of an
\* open tab's state (tick, Run task, Pause/Resume, missed-deadline rule, task
\* creation, settings and rule toggles, replacement by a received snapshot)
\* the session list before is a prefix of the session list after.
C17_SessionsOnlyGrow ==
    [][\A t \in open : IsPrefix(st[t].sessions, st'[t].sessions)]_vars

----------------------------------------------------------------------------
(* Claims about task creation (SpecCreate).                                *)

\* the name is empty or white space only
IsBlank(name) == \A i \in 1..Len(name) : name[i] = " "

\* what claim C18 promises of a creation step of tab t with the name typed
CreatePromise(t, name) ==
    IF IsBlank(name)
    THEN /\ st'[t] = st[t]
         /\ storage' = storage
         /\ inbox' = inbox
    ELSE /\ Len(st'[t].tasks) = Len(st[t].tasks) + 1
         /\ SubSeq(st'[t].tasks, 1, Len(st[t].tasks)) = st[t].tasks
         /\ st'[t].tasks[Len(st'[t].tasks)].state = "Queued"
         /\ st'[t].tasks[Len(st'[t].tasks)].totalFocusSeconds = 0
         /\ st'[t].timer = st[t].timer
         /\ st'[t].activeTaskId = st[t].activeTaskId
         /\ st'[t].sessions = st[t].sessions
         /\ st'[t].streak = st[t].streak

\* C18: creating a task, quick or advanced, with a name that is not blank
\* appends exactly one task, Queued and with 0 focus seconds, at the end of
\* the task list and leaves the existing tasks, the timer, the active task
\* id, the sessions and the streak as they were; with a blank or white-space
\* name it changes nothing.
C18_CreateAppendsQueuedTask ==
    [][\A t \in Tabs, name \in DrawnNames :
          /\ createQuickTask(t, name) => CreatePromise(t, name)
          /\ \A p \in PriorityInputs, c \in CostInputs,
                d \in DeadlineInputs \cup {NoDeadline} :
                createAdvancedTask(t, name, p, c, d) => CreatePromise(t, name)]_vars

\* C18 witness: an advanced task was created behind a Running active task
\* while the focus countdown runs
C18_CreatedBehindRunningTask ==
    /\ last.op = "createAdvancedTask"
    /\ Len(st[1].tasks) = 2
    /\ st[1].tasks[1].state = "Running" /\ st[1].activeTaskId = 1
    /\ st[1].tasks[2].state = "Queued" /\ st[1].tasks[2].totalFocusSeconds = 0
    /\ st[1].timer.running /\ st[1].timer.phase = "focus"

----------------------------------------------------------------------------
(* Claims about the display ordering (SpecSort).                           *)

NeitherRunningNorQueued(task) == task.state \notin {"Running", "Queued"}

\* C19: for a task list with at most one Running task, the display ordering
\* is a permutation of the tasks with the Running task first, every Queued
\* task before every task that is neither Running nor Queued, and the tasks
\* that are neither Running nor Queued in non-increasing priority weight.
C19_DisplayOrdering ==
    last.op = "render" =>
        LET tasks == st[last.tab].tasks
            shown == last.shown
        IN  Cardinality({i \in 1..Len(tasks) : tasks[i].state = "Running"}) <= 1 =>
              /\ Len(shown) = Len(tasks)
              /\ \A i \in 1..Len(tasks) :
                    Cardinality({j \in 1..Len(shown) : shown[j] = tasks[i]}) =
                    Cardinality({j \in 1..Len(tasks) : tasks[j] = tasks[i]})
              /\ \A i \in 1..Len(shown) : shown[i].state = "Running" => i = 1
              /\ \A i, j \in 1..Len(shown) :
                    (i < j /\ shown[j].state = "Queued") =>
                        ~NeitherRunningNorQueued(shown[i])
              /\ \A i, j \in 1..Len(shown) :
                    (/\ i < j
                     /\ NeitherRunningNorQueued(shown[i])
                     /\ NeitherRunningNorQueued(shown[j])) =>
                        shown[i].priorityWeight >= shown[j].priorityWeight

\* C19 witness: a list that starts with a high-priority Completed task, then
\* a Queued task, then the Running task was rendered in the opposite order
C19_RenderedReordered ==
    /\ last.op = "render"
    /\ Len(st[1].tasks) = 3
    /\ st[1].tasks[1].state = "Completed" /\ st[1].tasks[1].priorityWeight = 5
    /\ st[1].tasks[2].state = "Queued" /\ st[1].tasks[2].priorityWeight = 1
    /\ st[1].tasks[3].state = "Running"
    /\ last.shown = <<st[1].tasks[3], st[1].tasks[2], st[1].tasks[1]>>

----------------------------------------------------------------------------
(* Claims about the life of a task (Spec).                                 *)

\* the operations claim C20 names: Run, Start Session, Pause / Resume,
\* ticks, the missed-deadline rule
UiOperations == {"runTask", "pauseOrResume", "tick", "applyMissedDeadlineRule"}

\* C20: Completed is a terminal status: over every step of Run (offered for
\* tasks that are not Completed), Start Session (the first task in display
\* order, when no task is active), Pause / Resume, a tick or the
\* missed-deadline rule, a task that is Completed is still Completed
\* afterwards.
C20_CompletedIsTerminal ==
    [][\A t \in Tabs :
          last'.op \in UiOperations /\ last'.tab = t =>
              \A i \in 1..Len(st[t].tasks) :
                  st[t].tasks[i].state = "Completed" =>
                      \E j \in 1..Len(st'[t].tasks) :
                          /\ st'[t].tasks[j].id = st[t].tasks[i].id
                          /\ st'[t].tasks[j].state = "Completed"]_vars

----------------------------------------------------------------------------
(* Claims about the timer and the active task in one tab (Spec).           *)

\* C21: in one tab an active task id is set only while the phase is focus:
\* in break there is no active task and the timer runs, and while the timer
\* runs in focus an active task id is set.
C21_ActiveOnlyInFocus ==
    \A t \in open :
        /\ st[t].activeTaskId # NoTask => st[t].timer.phase = "focus"
        /\ st[t].timer.phase = "break" =>
               st[t].activeTaskId = NoTask /\ st[t].timer.running
        /\ (st[t].timer.phase = "focus" /\ st[t].timer.running) =>
               st[t].activeTaskId # NoTask

\* C21 witness: a break that follows a completed focus phase
C21_InBreakAfterFocus ==
    /\ st[1].timer.phase = "break"
    /\ st[1].sessions # <<>>
    /\ st[1].activeTaskId = NoTask
    /\ \E i \in 1..Len(st[1].tasks) : st[1].tasks[i].state = "Completed"

\* C22: in one tab every Session record has completed = true, interrupted =
\* false and completedSeconds = plannedSeconds, and streak is the number of
\* Session records; so the completion rate over the last 6 sessions is 1
\* (all of them completed, or none recorded) and is never below 0.5: the
\* shorten adjustment is not applied.
C22_SessionsAllCompleted ==
    \A t \in open :
        /\ \A i \in 1..Len(st[t].sessions) :
              /\ st[t].sessions[i].completed
              /\ ~st[t].sessions[i].interrupted
              /\ st[t].sessions[i].completedSeconds =
                     st[t].sessions[i].plannedSeconds
        /\ st[t].streak = Len(st[t].sessions)
        /\ RecentCompleted(st[t]) = Len(RecentFlags(st[t]))
        /\ ~RateLow(st[t])
        /\ ~Shortens(st[t])

\* C22 witness: with a Session recorded and the adaptive calculator on, Run
\* task has computed a duration
C22_RanAfterSession ==
    /\ last.op = "runTask"
    /\ st[1].sessions # <<>>
    /\ st[1].streak = Len(st[1].sessions)
    /\ st[1].settings.adaptivePomodoro

\* the sum of completedSeconds over the Session records of task id
RECURSIVE CompletedSecondsOf(_, _)
CompletedSecondsOf(sessions, id) ==
    IF sessions = <<>> THEN 0
    ELSE (IF Head(sessions).taskId = id
          THEN Head(sessions).completedSeconds ELSE 0)
         + CompletedSecondsOf(Tail(sessions), id)

\* C23: in one tab each task's accumulated focus seconds are the sum of
\* completedSeconds over the Session records with its id, and a task with a
\* nonzero accumulated value has at least one Session.
C23_FocusSecondsMatchSessions ==
    \A t \in open :
        \A i \in 1..Len(st[t].tasks) :
            /\ st[t].tasks[i].totalFocusSeconds =
                   CompletedSecondsOf(st[t].sessions, st[t].tasks[i].id)
            /\ st[t].tasks[i].totalFocusSeconds # 0 =>
                   \E k \in 1..Len(st[t].sessions) :
                       st[t].sessions[k].taskId = st[t].tasks[i].id

\* C23 witness: of two tasks one has finished a focus phase and has its
\* seconds and its Session, the other has neither
C23_OneTaskCredited ==
    /\ Len(st[1].tasks) = 2
    /\ Len(st[1].sessions) = 1
    /\ \E i, j \in 1..2 :
          /\ st[1].tasks[i].totalFocusSeconds > 0
          /\ st[1].sessions[1].taskId = st[1].tasks[i].id
          /\ st[1].sessions[1].completedSeconds = st[1].tasks[i].totalFocusSeconds
          /\ st[1].tasks[j].totalFocusSeconds = 0

----------------------------------------------------------------------------
(* Claims about progress of the timer (SpecLive).                          *)

\* the timer runs in focus with task id active
Focusing(id) ==
    /\ st[1].timer.running
    /\ st[1].timer.phase = "focus"
    /\ st[1].activeTaskId = id

\* task id is Completed, has a Session, and the timer is in break
Finished(id) ==
    /\ \E i \in 1..Len(st[1].tasks) :
          st[1].tasks[i].id = id /\ st[1].tasks[i].state = "Completed"
    /\ \E k \in 1..Len(st[1].sessions) : st[1].sessions[k].taskId = id
    /\ st[1].timer.phase = "break"

\* the timer is back in focus, stopped, with no active task
Rested ==
    /\ st[1].timer.phase = "focus"
    /\ ~st[1].timer.running
    /\ st[1].activeTaskId = NoTask

\* C24: from a state where the timer runs in focus with active task T, with
\* ticks that keep firing and without Run task, Pause / Resume or a snapshot
\* replacement, eventually T is Completed with a Session recorded and the
\* timer is in break, and after that the timer is eventually back in focus
\* with running = false and no active task.
C24_FocusRunsToCompletion ==
    \A id \in 1..MaxTasks : Focusing(id) ~> (Finished(id) /\ <>Rested)

\* C24 witness: the whole cycle has run: the task that was active is
\* Completed with its Session and the timer rests in focus after the break
C24_CycleDone ==
    /\ Rested
    /\ last.op = "tick"
    /\ st[1].sessions # <<>>
    /\ \E i \in 1..Len(st[1].tasks) :
          /\ st[1].tasks[i].state = "Completed"
          /\ st[1].tasks[i].id = st[1].sessions[1].taskId

----------------------------------------------------------------------------
(* Claims about the countdown in two tabs (SpecClock).                     *)

\* C25: with two tabs open on the same running timer and no user actions,
\* between two consecutive ticks of one tab that tab's timer.remaining
\* decreases by at most 1: what a tick leaves is at most 1 less than what
\* the tab's previous tick left.
C25_OneSecondPerTick ==
    [][\A t \in Tabs :
          (TickRecorded(t) /\ ticked[t] # <<>>) =>
              ticked[t][1] - st'[t].timer.remaining <= 1]_vars

====
